---- MODULE Spec2Model ----
(***************************************************************************)
(* Model of the Nuxt starter template: the configuration record declared   *)
(* in nuxt.config.ts and the way the framework consumes it at start-up     *)
(* (module activation, manifest generation, per-route rule lookup), and    *)
(* the code examples of the development rules (security middleware, async  *)
(* helpers, Pinia stores, upload validation), each under a specification   *)
(* of its own.                                                             *)
(***************************************************************************)
EXTENDS Integers, Sequences, FiniteSets, TLC

\* the configuration record and its consumers
VARIABLES config, activated, manifest, request, applied

\* the code examples, one record of local state per example
VARIABLES security, apiCall, race, productsStore, userCard, form,
          authStore, authGuard, authFlow, upload, passwordCheck

configVars == <<config, activated, manifest, request, applied>>

exampleVars ==
    <<security, apiCall, race, productsStore, userCard, form,
      authStore, authGuard, authFlow, upload, passwordCheck>>

vars == <<configVars, exampleVars>>

\* what the steps of one example leave alone
loadingVars == <<productsStore, userCard, form>>
authVars == <<authStore, authGuard, authFlow>>

exceptSecurity == <<configVars, apiCall, race, loadingVars, authVars, upload, passwordCheck>>
exceptApiCall == <<configVars, security, race, loadingVars, authVars, upload, passwordCheck>>
exceptRace == <<configVars, security, apiCall, loadingVars, authVars, upload, passwordCheck>>
exceptProductsStore == <<configVars, security, apiCall, race, userCard, form, authVars, upload, passwordCheck>>
exceptUserCard == <<configVars, security, apiCall, race, productsStore, form, authVars, upload, passwordCheck>>
exceptForm == <<configVars, security, apiCall, race, productsStore, userCard, authVars, upload, passwordCheck>>
exceptAuth == <<configVars, security, apiCall, race, loadingVars, upload, passwordCheck>>
exceptUpload == <<configVars, security, apiCall, race, loadingVars, authVars, passwordCheck>>
exceptPasswordCheck == <<configVars, security, apiCall, race, loadingVars, authVars, upload>>

(***************************************************************************)
(* Bounds.                                                                 *)
(***************************************************************************)
\* longest request path, in segments
MaxSegs == 3

(***************************************************************************)
(* Text helpers.  A string is a sequence of characters; every helper works *)
(* on the characters of the literal.                                       *)
(***************************************************************************)
Ch(s, i) == SubSeq(s, i, i)

IndexesOf(s, c) == {i \in 1..Len(s) : Ch(s, i) = c}

Contains(s, t) == \E i \in 1..(Len(s) - Len(t) + 1) : SubSeq(s, i, i + Len(t) - 1) = t

StartsWith(s, t) == Len(t) <= Len(s) /\ SubSeq(s, 1, Len(t)) = t

NthSmallest(S, k) == CHOOSE x \in S : Cardinality({y \in S : y < x}) = k - 1

\* s.split(c): the pieces of s between the occurrences of the character c
Split(s, c) ==
    LET cuts == {0} \cup IndexesOf(s, c) \cup {Len(s) + 1}
    IN  [k \in 1..(Cardinality(cuts) - 1) |->
            SubSeq(s, NthSmallest(cuts, k) + 1, NthSmallest(cuts, k + 1) - 1)]

\* the text after the last occurrence of c (all of s when c does not occur)
AfterLast(s, c) == LET p == Split(s, c) IN p[Len(p)]

DigitChars == "0123456789"

IsDigit(c) == \E d \in 1..10 : Ch(DigitChars, d) = c

IsDigits(s) == Len(s) > 0 /\ \A i \in 1..Len(s) : IsDigit(Ch(s, i))

DigitValue(c) == (CHOOSE d \in 1..10 : Ch(DigitChars, d) = c) - 1

RECURSIVE ParseNat(_)
ParseNat(s) ==
    IF Len(s) = 0 THEN 0
    ELSE 10 * ParseNat(SubSeq(s, 1, Len(s) - 1)) + DigitValue(Ch(s, Len(s)))

Range(s) == {s[i] : i \in DOMAIN s}

(***************************************************************************)
(* nuxt.config.ts: the literal passed to defineNuxtConfig.                 *)
(***************************************************************************)
compatibilityDate == "2025-07-15"

devtools == [enabled |-> TRUE]

\* mutant: the wildcard glued to the segment before it
routeRules_gluedWildcard == [pattern \in {"/api**"} |-> [cors |-> TRUE]]

\* mutant: a catch-all rule that switches server rendering off
routeRules_catchAll ==
    [pattern \in {"/api/**", "/**"} |->
        IF pattern = "/api/**" THEN [cors |-> TRUE] ELSE [ssr |-> FALSE]]

routeRules == [pattern \in {"/api/**"} |-> [cors |-> TRUE]]

\* mutant: the state-management integration registered twice
modules_duplicated ==
    << "@nuxt/ui",
       "@nuxt/image",
       "@pinia/nuxt",
       "@vueuse/nuxt",
       "@vueuse/motion/nuxt",
       "@vite-pwa/nuxt",
       "@pinia/nuxt",
       "nuxt-security" >>

\* mutant: the security integration left out of the list
modules_withoutSecurity ==
    << "@nuxt/ui",
       "@nuxt/image",
       "@pinia/nuxt",
       "@vueuse/nuxt",
       "@vueuse/motion/nuxt",
       "@vite-pwa/nuxt",
       "@nuxtjs/supabase" >>

\* mutant: the security integration moved to the head of the list
modules_securityFirst ==
    << "nuxt-security",
       "@nuxt/ui",
       "@nuxt/image",
       "@pinia/nuxt",
       "@vueuse/nuxt",
       "@vueuse/motion/nuxt",
       "@vite-pwa/nuxt",
       "@nuxtjs/supabase" >>

modules ==
    << "@nuxt/ui",
       "@nuxt/image",
       "@pinia/nuxt",
       "@vueuse/nuxt",
       "@vueuse/motion/nuxt",
       "@vite-pwa/nuxt",
       "@nuxtjs/supabase",
       "nuxt-security" >>

css == << "~/assets/css/main.css" >>

\* mutant: the two icons' dimensions exchanged
icons_swappedSizes ==
    << [src |-> "/icon-192.png", sizes |-> "512x512", type |-> "image/png"],
       [src |-> "/icon-512.png", sizes |-> "192x192", type |-> "image/png"] >>

icons ==
    << [src |-> "/icon-192.png", sizes |-> "192x192", type |-> "image/png"],
       [src |-> "/icon-512.png", sizes |-> "512x512", type |-> "image/png"] >>

pwa ==
    [ manifest |->
        [ name             |-> "Nuxt App",
          short_name       |-> "NuxtApp",
          description      |-> "A Nuxt PWA",
          theme_color      |-> "#ffffff",
          background_color |-> "#ffffff",
          display          |-> "standalone",
          icons            |-> icons ],
      workbox    |-> [globPatterns |-> << "**/*.{js,css,png,svg,ico}" >>],
      devOptions |-> [enabled |-> TRUE] ]

\* mutant: the global style sheets dropped from the record
defineNuxtConfig_withoutCss ==
    [ compatibilityDate |-> compatibilityDate,
      devtools          |-> devtools,
      routeRules        |-> routeRules,
      modules           |-> modules,
      pwa               |-> pwa ]

defineNuxtConfig ==
    [ compatibilityDate |-> compatibilityDate,
      devtools          |-> devtools,
      routeRules        |-> routeRules,
      modules           |-> modules,
      css               |-> css,
      pwa               |-> pwa ]

(***************************************************************************)
(* Request paths and route-rule lookup.                                    *)
(***************************************************************************)
Segments == {"api", "apix", "users", "about"}

RECURSIVE JoinPath(_)
JoinPath(segs) ==
    IF Len(segs) = 0 THEN ""
    ELSE "/" \o Head(segs) \o JoinPath(Tail(segs))

\* every request path of at most MaxSegs segments; "/" is the root
Paths ==
    {"/"} \cup
    UNION { {JoinPath(segs) : segs \in [1..n -> Segments]} : n \in 1..MaxSegs }

\* the non-empty "/"-separated pieces of a path or of a pattern
PathSegments(p) == SelectSeq(Split(p, "/"), LAMBDA x : x # "")

\* a pattern matches segment by segment; "**" matches whatever is left
RECURSIVE MatchSegments(_, _)
MatchSegments(pat, segs) ==
    IF Len(pat) = 0 THEN Len(segs) = 0
    ELSE IF Head(pat) = "**" THEN TRUE
    ELSE /\ Len(segs) > 0
         /\ Head(pat) = Head(segs)
         /\ MatchSegments(Tail(pat), Tail(segs))

Matches(pattern, path) == MatchSegments(PathSegments(pattern), PathSegments(path))

\* a request that no rule matches carries no option at all
NoOverride == {}

\* the options of every matching rule, as option/value pairs, the longest
\* pattern winning where two rules set the same option
RouteOptions(rules, path) ==
    LET M    == {k \in DOMAIN rules : Matches(k, path)}
        Opts == UNION {DOMAIN rules[k] : k \in M}
        Best(o) == CHOOSE k \in M :
                     /\ o \in DOMAIN rules[k]
                     /\ \A j \in M : o \in DOMAIN rules[j] => Len(j) <= Len(k)
    IN  {[option |-> o, value |-> rules[Best(o)][o]] : o \in Opts}

(***************************************************************************)
(* JavaScript values shared by the code examples.  An optional value is a  *)
(* sequence: empty for undefined, one element for a value.                 *)
(***************************************************************************)
Undefined == << >>

Some(x) == << x >>

\* !!x for an optional string: undefined and "" are falsy
Truthy(x) == x # Undefined /\ x[1] # ""

\* a || b
OrElse(a, b) == IF Truthy(a) THEN a ELSE b

\* n.toString() for a natural number
RECURSIVE NatToString(_)
NatToString(n) ==
    IF n < 10 THEN Ch(DigitChars, n + 1)
    ELSE NatToString(n \div 10) \o Ch(DigitChars, (n % 10) + 1)

(***************************************************************************)
(* The code examples at rest: no request received, no call made.           *)
(***************************************************************************)
\* server/middleware/security.ts before any request
securityIdle ==
    [ pc           |-> "idle",
      method       |-> Undefined,
      cookie       |-> Undefined,
      header       |-> Undefined,
      ip           |-> "",
      path         |-> "",
      verified     |-> "notcalled",
      limiterCalls |-> << >>,
      limit        |-> << >>,
      error        |-> << >> ]

\* a promise: pending, fulfilled with a value or rejected with a reason
Pending == [state |-> "pending", value |-> Undefined, reason |-> Undefined]

Fulfilled(v) == [state |-> "fulfilled", value |-> Some(v), reason |-> Undefined]

Rejected(e) == [state |-> "rejected", value |-> Undefined, reason |-> Some(e)]

\* safeApiCall before it is called
apiCallIdle == [pc |-> "idle", fn |-> Pending, result |-> Pending]

\* withTimeout before it is called
raceIdle ==
    [ pc         |-> "idle",
      ms         |-> 0,
      elapsed    |-> 0,
      promise    |-> Pending,
      timerFired |-> FALSE,
      events     |-> << >>,
      result     |-> Pending ]

\* an async function that returned without a value
FulfilledVoid == [state |-> "fulfilled", value |-> Undefined, reason |-> Undefined]

\* stores/products.ts: products = ref([]), loading = ref(false), no call made
productsStoreIdle == [products |-> Some(<< >>), loading |-> FALSE, calls |-> << >>]

\* the user component: user = ref(null), loading = ref(false)
userCardIdle == [user |-> Some("null"), loading |-> FALSE, calls |-> << >>]

\* the form: pending = ref(false)
formIdle == [pending |-> FALSE, calls |-> << >>]

\* null, as the value of a ref or of a cookie
Null == "null"

\* stores/auth.ts: user = ref(null), no auth-token cookie, no call made
authStoreIdle == [user |-> Null, token |-> Null, calls |-> << >>]

\* useAuthGuard: requireAuth not called yet
authGuardIdle == [called |-> FALSE, thrown |-> << >>]

\* useAuthFlow: loginWithFlow not called yet
authFlowIdle ==
    [ pc         |-> "idle",
      validation |-> [success |-> FALSE],
      loginCalls |-> << >>,
      tracked    |-> << >>,
      returned   |-> Pending ]

\* no file has been handed to validateFile
NoUpload == [file |-> << >>, called |-> FALSE, thrown |-> << >>]

\* no password has been handed to validatePassword
NoPasswordCheck == [password |-> "", called |-> FALSE, returned |-> FALSE]

ExamplesAtRest ==
    /\ authStore = authStoreIdle
    /\ authGuard = authGuardIdle
    /\ authFlow = authFlowIdle
    /\ security = securityIdle
    /\ apiCall = apiCallIdle
    /\ race = raceIdle
    /\ productsStore = productsStoreIdle
    /\ userCard = userCardIdle
    /\ form = formIdle

(***************************************************************************)
(* State machine of the configuration.                                     *)
(***************************************************************************)
\* the generated descriptors: none before the PWA integration has run
NoManifest == << >>
NoRequest == "none"

\* the configuration is loaded, nothing has consumed it yet
ConfigLoaded ==
    /\ config = defineNuxtConfig
    /\ activated = << >>
    /\ manifest = NoManifest
    /\ request = NoRequest
    /\ applied = NoOverride

Init ==
    /\ ConfigLoaded
    /\ ExamplesAtRest
    /\ upload = NoUpload
    /\ passwordCheck = NoPasswordCheck

AllActivated == Len(activated) = Len(config.modules)

\* the next integration of the list is activated
ActivateModule ==
    /\ Len(activated) < Len(config.modules)
    /\ activated' = Append(activated, config.modules[Len(activated) + 1])
    /\ UNCHANGED <<config, manifest, request, applied>>
    /\ UNCHANGED exampleVars

\* mutant: the descriptor's defaults are filled in on the configuration itself
GenerateManifest_inPlace ==
    /\ "@vite-pwa/nuxt" \in Range(activated)
    /\ manifest = NoManifest
    /\ config' = [config EXCEPT !.pwa.manifest = @ @@ [start_url |-> "/"]]
    /\ manifest' = << config'.pwa.manifest >>
    /\ UNCHANGED <<activated, request, applied>>
    /\ UNCHANGED exampleVars

\* the PWA integration copies the manifest literal into the descriptor
GenerateManifest ==
    /\ "@vite-pwa/nuxt" \in Range(activated)
    /\ manifest = NoManifest
    /\ manifest' = << config.pwa.manifest >>
    /\ UNCHANGED <<config, activated, request, applied>>
    /\ UNCHANGED exampleVars

\* a request is served with the route rules that match its path
HandleRequest(path) ==
    /\ AllActivated
    /\ request' = path
    /\ applied' = RouteOptions(config.routeRules, path)
    /\ UNCHANGED <<config, activated, manifest>>
    /\ UNCHANGED exampleVars

Next ==
    \/ ActivateModule
    \/ GenerateManifest
    \/ \E path \in Paths : HandleRequest(path)

Spec == Init /\ [][Next]_vars

(***************************************************************************)
(* C1.  The configuration record is read once at start and never mutated:  *)
(* in every state it is the literal declared in nuxt.config.ts, and no     *)
(* step changes any of its fields.                                         *)
(***************************************************************************)
ConfigFields == {"compatibilityDate", "devtools", "routeRules", "modules", "css", "pwa"}

ConfigNeverMutated ==
    [][ /\ \A f \in ConfigFields : config[f] = defineNuxtConfig[f]
        /\ \A f \in ConfigFields : config'[f] = config[f]
        /\ DOMAIN config' = DOMAIN config ]_vars

\* every consumer of the record has run: all integrations are active, the
\* descriptor is generated and a request has been served
ConfigUsedByEveryConsumer ==
    /\ AllActivated
    /\ manifest # NoManifest
    /\ request # NoRequest
    /\ config = defineNuxtConfig

(***************************************************************************)
(* C2.  Every module name of the modules list is a recognized, unique      *)
(* entry: no name stands at two positions, and each name is one of the     *)
(* integrations the repository documents.                                  *)
(***************************************************************************)
\* the integrations the guidelines and the technology notes describe, with
\* the package each one is published as
DocumentedIntegrations ==
    { [name |-> "Nuxt UI",        module |-> "@nuxt/ui"],
      [name |-> "Nuxt Image",     module |-> "@nuxt/image"],
      [name |-> "Pinia",          module |-> "@pinia/nuxt"],
      [name |-> "VueUse",         module |-> "@vueuse/nuxt"],
      [name |-> "VueUse Motion",  module |-> "@vueuse/motion/nuxt"],
      [name |-> "Vite PWA",       module |-> "@vite-pwa/nuxt"],
      [name |-> "Supabase",       module |-> "@nuxtjs/supabase"],
      [name |-> "nuxt-security",  module |-> "nuxt-security"] }

DocumentedModules == {d.module : d \in DocumentedIntegrations}

ModulesRecognizedAndUnique ==
    /\ \A i, j \in DOMAIN config.modules :
           config.modules[i] = config.modules[j] => i = j
    /\ \A i \in DOMAIN config.modules : config.modules[i] \in DocumentedModules

\* the list has several entries, and all of them have been activated
SeveralModulesListed ==
    /\ Len(config.modules) >= 2
    /\ Range(activated) = Range(config.modules)

(***************************************************************************)
(* C3.  Every icon of pwa.manifest.icons names dimensions matching its     *)
(* declared type: it has a source path, a sizes value WxH and a media      *)
(* type; W and H are the dimension named in the file name, and the media   *)
(* type is the one of the file extension.                                  *)
(***************************************************************************)
BeforeLast(s, c) ==
    LET at == IndexesOf(s, c)
    IN  IF at = {} THEN s ELSE SubSeq(s, 1, NthSmallest(at, Cardinality(at)) - 1)

FileName(src) == AfterLast(src, "/")

Extension(src) ==
    IF IndexesOf(FileName(src), ".") = {} THEN "" ELSE AfterLast(FileName(src), ".")

\* icon-192.png names the dimension 192; a name without one names -1
FileDimension(src) ==
    LET d == AfterLast(BeforeLast(FileName(src), "."), "-")
    IN  IF IsDigits(d) THEN ParseNat(d) ELSE -1

MediaTypeOf(ext) ==
    CASE ext = "png"  -> "image/png"
      [] ext = "jpg"  -> "image/jpeg"
      [] ext = "jpeg" -> "image/jpeg"
      [] ext = "webp" -> "image/webp"
      [] ext = "svg"  -> "image/svg+xml"
      [] ext = "ico"  -> "image/x-icon"
      [] OTHER        -> "application/octet-stream"

IsSizes(s) ==
    LET wh == Split(s, "x")
    IN  Len(wh) = 2 /\ IsDigits(wh[1]) /\ IsDigits(wh[2])

IconMatches(icon) ==
    /\ DOMAIN icon = {"src", "sizes", "type"}
    /\ Len(icon.src) > 0
    /\ IsSizes(icon.sizes)
    /\ ParseNat(Split(icon.sizes, "x")[1]) = FileDimension(icon.src)
    /\ ParseNat(Split(icon.sizes, "x")[2]) = FileDimension(icon.src)
    /\ icon.type = MediaTypeOf(Extension(icon.src))

IconsMatchDeclaredType ==
    \A i \in DOMAIN config.pwa.manifest.icons : IconMatches(config.pwa.manifest.icons[i])

\* the generated descriptor carries icons of two different dimensions
DescriptorHasBothIcons ==
    /\ manifest # NoManifest
    /\ {FileDimension(manifest[1].icons[i].src) : i \in DOMAIN manifest[1].icons} = {192, 512}

(***************************************************************************)
(* C4.  Every key of routeRules is a syntactically valid path pattern: it  *)
(* starts with "/", is made of "/"-separated segments, and a "**" wildcard *)
(* appears only as a whole segment.                                        *)
(***************************************************************************)
ValidPattern(key) ==
    LET pieces == Split(key, "/")
    IN  /\ StartsWith(key, "/")
        /\ key = "/" \/ \A k \in 2..Len(pieces) : Len(pieces[k]) > 0
        /\ \A k \in 1..Len(pieces) : Contains(pieces[k], "**") => pieces[k] = "**"

RouteRuleKeysValid == \A key \in DOMAIN config.routeRules : ValidPattern(key)

\* a rule with a wildcard segment exists and has been looked up for a request
WildcardRuleLookedUp ==
    /\ \E key \in DOMAIN config.routeRules : "**" \in Range(Split(key, "/"))
    /\ request # NoRequest

(***************************************************************************)
(* C5.  Route rules are limited to a cross-origin header toggle: the only  *)
(* option any pattern sets is cors, a boolean, so a request whose path     *)
(* matches no pattern (every path whose first segment is not api) is       *)
(* served with no per-route override at all.                               *)
(***************************************************************************)
OutsideApi(path) ==
    LET segs == PathSegments(path) IN Len(segs) = 0 \/ Head(segs) # "api"

RouteRulesOnlyToggleCors ==
    /\ \A key \in DOMAIN config.routeRules :
           /\ DOMAIN config.routeRules[key] = {"cors"}
           /\ config.routeRules[key].cors \in BOOLEAN
    /\ \A o \in applied : o.option = "cors" /\ o.value \in BOOLEAN
    /\ request # NoRequest =>
           /\ (\A key \in DOMAIN config.routeRules : ~Matches(key, request))
                 => applied = NoOverride
           /\ OutsideApi(request) => applied = NoOverride

\* a request under /apix, which only shares letters with the prefix, has been
\* served without any override
RequestOutsideApiServed ==
    /\ request = "/apix/api"
    /\ applied = NoOverride

(***************************************************************************)
(* C6.  The configuration record has exactly the shape of the schema: the  *)
(* six top-level fields, and under pwa the manifest (seven fields, every   *)
(* icon with source path, dimensions and media type), workbox.globPatterns *)
(* and devOptions.enabled, each of the stated type; no field is missing    *)
(* and no other field is present.                                          *)
(***************************************************************************)
IsString(x) == x \in STRING

IsStringSeq(q) == DOMAIN q = 1..Len(q) /\ \A i \in DOMAIN q : IsString(q[i])

\* YYYY-MM-DD with a month of 1..12 and a day of 1..31
IsDate(s) ==
    /\ Len(s) = 10
    /\ Ch(s, 5) = "-" /\ Ch(s, 8) = "-"
    /\ IsDigits(SubSeq(s, 1, 4)) /\ IsDigits(SubSeq(s, 6, 7)) /\ IsDigits(SubSeq(s, 9, 10))
    /\ ParseNat(SubSeq(s, 6, 7)) \in 1..12
    /\ ParseNat(SubSeq(s, 9, 10)) \in 1..31

ManifestFields ==
    {"name", "short_name", "description", "theme_color", "background_color",
     "display", "icons"}

ManifestHasShape(m) ==
    /\ DOMAIN m = ManifestFields
    /\ \A f \in ManifestFields \ {"icons"} : IsString(m[f])
    /\ DOMAIN m.icons = 1..Len(m.icons)
    /\ \A i \in DOMAIN m.icons :
           /\ DOMAIN m.icons[i] = {"src", "sizes", "type"}
           /\ \A f \in {"src", "sizes", "type"} : IsString(m.icons[i][f])

ConfigHasSchemaShape ==
    /\ DOMAIN config = ConfigFields
    /\ IsString(config.compatibilityDate) /\ IsDate(config.compatibilityDate)
    /\ DOMAIN config.devtools = {"enabled"} /\ config.devtools.enabled \in BOOLEAN
    /\ \A key \in DOMAIN config.routeRules : IsString(key)
    /\ IsStringSeq(config.modules)
    /\ IsStringSeq(config.css)
    /\ DOMAIN config.pwa = {"manifest", "workbox", "devOptions"}
    /\ ManifestHasShape(config.pwa.manifest)
    /\ DOMAIN config.pwa.workbox = {"globPatterns"}
    /\ IsStringSeq(config.pwa.workbox.globPatterns)
    /\ DOMAIN config.pwa.devOptions = {"enabled"}
    /\ config.pwa.devOptions.enabled \in BOOLEAN

\* the descriptor generated from the record has the manifest's seven fields
DescriptorHasManifestFields ==
    /\ manifest # NoManifest
    /\ DOMAIN manifest[1] = ManifestFields
    /\ Len(manifest[1].icons) > 0

(***************************************************************************)
(* C7.  Every integration the README and the guidelines say the template   *)
(* relies on as a framework module (Pinia, the @nuxtjs/supabase module,    *)
(* the security module) is registered in the modules list, and so is       *)
(* active once initialization is over.                                     *)
(***************************************************************************)
RequiredModules == {"@pinia/nuxt", "@nuxtjs/supabase", "nuxt-security"}

DocumentedModulesRegistered ==
    /\ RequiredModules \subseteq Range(config.modules)
    /\ AllActivated => RequiredModules \subseteq Range(activated)

\* initialization is over and the three integrations are active
RequiredModulesActive ==
    /\ AllActivated
    /\ RequiredModules \subseteq Range(activated)

(***************************************************************************)
(* C8.  nuxt.config.ts contains a runtime configuration for environment    *)
(* variables and build optimization settings.                              *)
(***************************************************************************)
\* the top-level options under which the framework takes build settings
BuildOptionFields ==
    {"build", "vite", "webpack", "nitro", "optimization", "postcss",
     "sourcemap", "experimental"}

ConfigHasRuntimeAndBuildSettings ==
    /\ "runtimeConfig" \in DOMAIN config
    /\ DOMAIN config \cap BuildOptionFields # {}

(***************************************************************************)
(* C9.  The modules list is order-sensitive for initialization: the        *)
(* integrations are activated in list order, each listed module exactly    *)
(* once, "@nuxt/ui" first and "nuxt-security" last, and none before a      *)
(* module listed earlier than it.                                          *)
(***************************************************************************)
ModulesActivatedInListOrder ==
    /\ Len(activated) <= Len(config.modules)
    /\ \A i \in DOMAIN activated : activated[i] = config.modules[i]
    /\ \A i, j \in DOMAIN activated : activated[i] = activated[j] => i = j
    /\ Len(activated) >= 1 => activated[1] = "@nuxt/ui"
    /\ AllActivated =>
           /\ activated[Len(activated)] = "nuxt-security"
           /\ \A m \in Range(config.modules) :
                  Cardinality({i \in DOMAIN activated : activated[i] = m}) = 1

\* initialization has just ended: the last module is active, nothing served
InitializationJustEnded ==
    /\ AllActivated
    /\ Len(activated) = Len(modules)
    /\ activated[Len(activated)] = "nuxt-security"
    /\ request = NoRequest

(***************************************************************************)
(* C10.  Colour values are always given in OKLCH format: neither the       *)
(* manifest's theme_color nor its background_color is in RGB, HSL or hex   *)
(* format.                                                                 *)
(***************************************************************************)
HexChars == "0123456789abcdefABCDEF"

IsHexColour(c) ==
    /\ StartsWith(c, "#")
    /\ Len(c) \in {4, 5, 7, 9}
    /\ \A i \in 2..Len(c) : \E h \in 1..Len(HexChars) : Ch(HexChars, h) = Ch(c, i)

IsFunctionalColour(c, fn) == StartsWith(c, fn \o "(") /\ Ch(c, Len(c)) = ")"

IsOklch(c) == IsFunctionalColour(c, "oklch")

IsRgbOrHsl(c) == \E fn \in {"rgb", "rgba", "hsl", "hsla"} : IsFunctionalColour(c, fn)

ConfigColours == {config.pwa.manifest.theme_color, config.pwa.manifest.background_color}

ColoursAreOklch ==
    \A c \in ConfigColours : IsOklch(c) /\ ~IsHexColour(c) /\ ~IsRgbOrHsl(c)

(***************************************************************************)
(* server/middleware/security.ts: CSRF protection and rate limiting.       *)
(* verifyCsrfToken and checkRateLimit are awaited; what they answer is the *)
(* environment's choice.                                                   *)
(***************************************************************************)
\* largest number checkRateLimit reports in retryAfter, remaining, resetTime
MaxReported == 11

maxRequests == 100

windowMs == 15 * 60 * 1000

Methods == {Undefined, Some("GET"), Some("POST"), Some("PUT"), Some("PATCH"),
            Some("DELETE"), Some("post")}

CsrfTokens == {Undefined, Some(""), Some("t0k3n")}

ClientIPs == {"10.0.0.1", "10.0.0.2"}

RequestPaths == {"/api/users", "/about"}

\* the numbers a rate-limit answer may carry
Reported == {0, MaxReported}

RateLimitResults ==
    [allowed : BOOLEAN, retryAfter : Reported, remaining : Reported, resetTime : Reported]

createError(statusCode, statusMessage, headers) ==
    [statusCode |-> statusCode, statusMessage |-> statusMessage, headers |-> headers]

\* an error thrown by an awaited helper, passed on as it is
HelperError == createError(500, "Internal Server Error", {})

\* ['POST', 'PUT', 'PATCH', 'DELETE'].includes(event.node.req.method || '')
StateChanging(method) ==
    LET m == IF Truthy(method) THEN method[1] ELSE ""
    IN  m \in {"POST", "PUT", "PATCH", "DELETE"}

\* getCookie(event, 'csrf-token') || getHeader(event, 'x-csrf-token')
CsrfToken(cookie, header) == OrElse(cookie, header)

rateLimitKey(clientIP, pathname) == "rate_limit:" \o clientIP \o ":" \o pathname

\* the handler goes on to the rate limiter: the key is built and
\* checkRateLimit is called and awaited
ConsultRateLimit(s) ==
    [s EXCEPT
        !.pc = "limiting",
        !.limiterCalls = Append(@, [ key                    |-> rateLimitKey(s.ip, s.path),
                                      windowMs               |-> windowMs,
                                      maxRequests            |-> maxRequests,
                                      skipSuccessfulRequests |-> FALSE ])]

Throw(s, err) == [s EXCEPT !.pc = "failed", !.error = << err >>]

\* a request arrives and the handler runs up to its first await
ReceiveRequest(method, cookie, header, ip, path) ==
    /\ security.pc \in {"idle", "passed", "failed"}
    /\ LET s == [securityIdle EXCEPT !.method = method, !.cookie = cookie,
                                      !.header = header, !.ip = ip, !.path = path]
       IN  security' =
             IF StateChanging(method)
             THEN IF ~Truthy(CsrfToken(cookie, header))
                  THEN Throw(s, createError(403, "CSRF token required", {}))
                  ELSE [s EXCEPT !.pc = "verifying"]
             ELSE ConsultRateLimit(s)
    /\ UNCHANGED exceptSecurity

\* mutant: the handler goes on after a token the verifier refused
VerifyReturns_ignored(isValidToken) ==
    /\ security.pc = "verifying"
    /\ security' = ConsultRateLimit(
                      [security EXCEPT !.verified = IF isValidToken THEN "accepted"
                                                    ELSE "refused"])
    /\ UNCHANGED exceptSecurity

\* verifyCsrfToken answers
VerifyReturns(isValidToken) ==
    /\ security.pc = "verifying"
    /\ LET s == [security EXCEPT !.verified = IF isValidToken THEN "accepted"
                                               ELSE "refused"]
       IN  security' =
             IF ~isValidToken
             THEN Throw(s, createError(403, "Invalid CSRF token", {}))
             ELSE ConsultRateLimit(s)
    /\ UNCHANGED exceptSecurity

\* verifyCsrfToken throws: the handler's promise rejects with that error
VerifyThrows ==
    /\ security.pc = "verifying"
    /\ security' = Throw([security EXCEPT !.verified = "threw"], HelperError)
    /\ UNCHANGED exceptSecurity

TooManyRequests(r) ==
    createError(429, "Too Many Requests",
        { [name |-> "Retry-After",           value |-> NatToString(r.retryAfter)],
          [name |-> "X-RateLimit-Limit",     value |-> "100"],
          [name |-> "X-RateLimit-Remaining", value |-> NatToString(r.remaining)],
          [name |-> "X-RateLimit-Reset",     value |-> NatToString(r.resetTime)] })

\* mutant: the test of the answer inverted
RateLimitReturns_inverted(r) ==
    /\ security.pc = "limiting"
    /\ LET s == [security EXCEPT !.limit = << r >>]
       IN  security' = IF r.allowed THEN Throw(s, TooManyRequests(r))
                       ELSE [s EXCEPT !.pc = "passed"]
    /\ UNCHANGED exceptSecurity

\* checkRateLimit answers
RateLimitReturns(r) ==
    /\ security.pc = "limiting"
    /\ LET s == [security EXCEPT !.limit = << r >>]
       IN  security' = IF ~r.allowed THEN Throw(s, TooManyRequests(r))
                       ELSE [s EXCEPT !.pc = "passed"]
    /\ UNCHANGED exceptSecurity

\* checkRateLimit throws
RateLimitThrows ==
    /\ security.pc = "limiting"
    /\ security' = Throw(security, HelperError)
    /\ UNCHANGED exceptSecurity

NextSecurity ==
    \/ \E method \in Methods, cookie \in CsrfTokens, header \in CsrfTokens,
          ip \in ClientIPs, path \in RequestPaths :
          ReceiveRequest(method, cookie, header, ip, path)
    \/ \E isValidToken \in BOOLEAN : VerifyReturns(isValidToken)
    \/ VerifyThrows
    \/ \E r \in RateLimitResults : RateLimitReturns(r)
    \/ RateLimitThrows

SpecSecurity == Init /\ [][NextSecurity]_vars

(***************************************************************************)
(* C11.  A POST, PUT, PATCH or DELETE request gets past the CSRF step only *)
(* if a token is present (cookie or header) and verifyCsrfToken accepts    *)
(* it; with no token it fails with 403 "CSRF token required", with a       *)
(* refused token with 403 "Invalid CSRF token", and in both cases the rate *)
(* limiter is never consulted for the request.                             *)
(***************************************************************************)
NonEmptyString(x) == x # Undefined /\ Len(x[1]) > 0

CsrfStepGuardsStateChangingRequests ==
    LET present   == NonEmptyString(security.cookie) \/ NonEmptyString(security.header)
        consulted == Len(security.limiterCalls) > 0
    IN  ( /\ security.pc # "idle"
          /\ security.method \in {Some("POST"), Some("PUT"), Some("PATCH"), Some("DELETE")} )
        =>
        /\ consulted => present /\ security.verified = "accepted"
        /\ ~present =>
              /\ security.pc = "failed"
              /\ security.error = << createError(403, "CSRF token required", {}) >>
              /\ security.verified = "notcalled"
              /\ ~consulted
        /\ security.verified = "refused" =>
              /\ security.pc = "failed"
              /\ security.error = << createError(403, "Invalid CSRF token", {}) >>
              /\ ~consulted

\* a DELETE whose token, taken from the header behind an empty cookie, was
\* refused
RefusedTokenRejected ==
    /\ security.method = Some("DELETE")
    /\ security.cookie = Some("")
    /\ security.header = Some("t0k3n")
    /\ security.verified = "refused"
    /\ security.pc = "failed"

(***************************************************************************)
(* C12.  Every request the CSRF step does not reject, including every      *)
(* request of another method (which skips that step), is checked against   *)
(* the rate limit keyed by client IP and path (100 requests per 15-minute  *)
(* window), and it is rejected with 429 "Too Many Requests" and the        *)
(* Retry-After, X-RateLimit-Limit "100", X-RateLimit-Remaining and         *)
(* X-RateLimit-Reset headers exactly when checkRateLimit reports it as not *)
(* allowed.                                                                *)
(***************************************************************************)
RateLimitHeaderNames ==
    {"Retry-After", "X-RateLimit-Limit", "X-RateLimit-Remaining", "X-RateLimit-Reset"}

Is429(err) ==
    /\ err.statusCode = 429
    /\ err.statusMessage = "Too Many Requests"
    /\ {h.name : h \in err.headers} = RateLimitHeaderNames
    /\ [name |-> "X-RateLimit-Limit", value |-> "100"] \in err.headers

RateLimitDecidesAdmittedRequests ==
    LET csrfRejected ==
            \/ security.verified = "threw"
            \/ security.error # << >> /\ security.error[1].statusCode = 403
        skipsCsrf ==
            security.method \notin {Some("POST"), Some("PUT"), Some("PATCH"), Some("DELETE")}
        rejected429 == security.error # << >> /\ Is429(security.error[1])
    IN  /\ (security.pc \in {"limiting", "passed", "failed"} /\ ~csrfRejected) =>
              /\ Len(security.limiterCalls) = 1
              /\ security.limiterCalls[1].key =
                    "rate_limit:" \o security.ip \o ":" \o security.path
              /\ security.limiterCalls[1].windowMs = 900000
              /\ security.limiterCalls[1].maxRequests = 100
        /\ (security.pc # "idle" /\ skipsCsrf) =>
              security.verified = "notcalled" /\ ~csrfRejected
        /\ security.limit # << >> =>
              /\ security.pc \in {"passed", "failed"}
              /\ rejected429 <=> ~security.limit[1].allowed
              /\ security.limit[1].allowed => security.pc = "passed" /\ security.error = << >>
              /\ ~security.limit[1].allowed => security.pc = "failed"
        /\ rejected429 => security.limit # << >>

\* a lower-case "post", which skips the CSRF step, was turned away by the
\* rate limiter with the reported numbers in its headers
SkippingRequestRateLimited ==
    /\ security.method = Some("post")
    /\ security.pc = "failed"
    /\ security.limit # << >>
    /\ security.error # << >>
    /\ security.error[1].statusCode = 429
    /\ [name |-> "Retry-After", value |-> "11"] \in security.error[1].headers
    /\ [name |-> "X-RateLimit-Remaining", value |-> "0"] \in security.error[1].headers

(***************************************************************************)
(* Async helpers: safeApiCall (Result pattern) and withTimeout.            *)
(***************************************************************************)
\* longest delay passed to withTimeout, and the time the clock runs to
MaxMs == 2

MaxTime == 3

\* values a promise is fulfilled with
Values == {"user-1", "user-2"}

\* values thrown or rejected with: two Error objects (one of a subclass), a
\* string and undefined; id tells one object from another
Thrown ==
    { [kind |-> "Error",           id |-> 1, message |-> "Network down"],
      [kind |-> "ValidationError", id |-> 2, message |-> "Invalid user data"],
      [kind |-> "string",          id |-> 3, message |-> "oops"],
      [kind |-> "undefined",       id |-> 4, message |-> ""] }

\* error instanceof Error
InstanceOfError(e) == e.kind \in {"Error", "ValidationError", "TypeError"}

\* new Error(message): an object that is none of the thrown ones
NewError(message) == [kind |-> "Error", id |-> 0, message |-> message]

\* { success: true, data }
Success(data) == [success |-> TRUE, data |-> Some(data), error |-> Undefined]

\* mutant: the caught value is always replaced
Failure_alwaysUnknown(error) ==
    [ success |-> FALSE,
      data    |-> Undefined,
      error   |-> Some(NewError("Unknown error")) ]

\* { success: false, error: error instanceof Error ? error : new Error(...) }
Failure(error) ==
    [ success |-> FALSE,
      data    |-> Undefined,
      error   |-> Some(IF InstanceOfError(error) THEN error
                       ELSE NewError("Unknown error")) ]

\* safeApiCall(fn) where fn() throws before it returns a promise: the catch
\* block runs at once
CallFnThrows(e) ==
    /\ apiCall.pc \in {"idle", "settled"}
    /\ apiCall' = [pc |-> "settled", fn |-> Rejected(e), result |-> Fulfilled(Failure(e))]
    /\ UNCHANGED exceptApiCall

\* safeApiCall(fn) where fn() returns a promise, which is awaited
CallFnReturns ==
    /\ apiCall.pc \in {"idle", "settled"}
    /\ apiCall' = [pc |-> "awaiting", fn |-> Pending, result |-> Pending]
    /\ UNCHANGED exceptApiCall

\* the awaited promise fulfils
FnFulfils(v) ==
    /\ apiCall.pc = "awaiting"
    /\ apiCall' = [pc |-> "settled", fn |-> Fulfilled(v), result |-> Fulfilled(Success(v))]
    /\ UNCHANGED exceptApiCall

\* the awaited promise rejects
FnRejects(e) ==
    /\ apiCall.pc = "awaiting"
    /\ apiCall' = [pc |-> "settled", fn |-> Rejected(e), result |-> Fulfilled(Failure(e))]
    /\ UNCHANGED exceptApiCall

\* the outcomes a promise can have
Outcomes == {Fulfilled(v) : v \in Values} \cup {Rejected(e) : e \in Thrown}

\* reject(new Error('Timeout'))
TimeoutRejection == Rejected([kind |-> "Error", id |-> 0, message |-> "Timeout"])

\* Promise.race: the first settlement is the result, later ones are dropped
Settle(result, outcome) == IF result.state = "pending" THEN outcome ELSE result

\* withTimeout(promise, ms): the timer is started and the race is set up; a
\* promise that is settled already wins the race before any timer can run
WithTimeout(promise, ms) ==
    /\ race.pc = "idle"
    /\ race' = [ pc         |-> "racing",
                 ms         |-> ms,
                 elapsed    |-> 0,
                 promise    |-> promise,
                 timerFired |-> FALSE,
                 events     |-> IF promise.state = "pending" THEN << >>
                                ELSE << [what |-> "promise", at |-> 0] >>,
                 result     |-> Settle(Pending, promise) ]
    /\ UNCHANGED exceptRace

\* time passes
Tick ==
    /\ race.pc = "racing"
    /\ race.elapsed < MaxTime
    /\ race' = [race EXCEPT !.elapsed = @ + 1]
    /\ UNCHANGED exceptRace

\* the promise passed in settles
PromiseSettles(outcome) ==
    /\ race.pc = "racing"
    /\ race.promise.state = "pending"
    /\ race' = [race EXCEPT !.promise = outcome,
                            !.events = Append(@, [what |-> "promise", at |-> race.elapsed]),
                            !.result = Settle(@, outcome)]
    /\ UNCHANGED exceptRace

\* mutant: the timer's rejection replaces a result that is there already
TimerFires_overrides ==
    /\ race.pc = "racing"
    /\ ~race.timerFired
    /\ race.elapsed >= race.ms
    /\ race' = [race EXCEPT !.timerFired = TRUE,
                            !.events = Append(@, [what |-> "timer", at |-> race.elapsed]),
                            !.result = TimeoutRejection]
    /\ UNCHANGED exceptRace

\* the setTimeout callback runs, no earlier than ms after the call
TimerFires ==
    /\ race.pc = "racing"
    /\ ~race.timerFired
    /\ race.elapsed >= race.ms
    /\ race' = [race EXCEPT !.timerFired = TRUE,
                            !.events = Append(@, [what |-> "timer", at |-> race.elapsed]),
                            !.result = Settle(@, TimeoutRejection)]
    /\ UNCHANGED exceptRace

NextAsync ==
    \/ \E e \in Thrown : CallFnThrows(e)
    \/ CallFnReturns
    \/ \E v \in Values : FnFulfils(v)
    \/ \E e \in Thrown : FnRejects(e)
    \/ \E promise \in {Pending} \cup Outcomes, ms \in 0..MaxMs : WithTimeout(promise, ms)
    \/ Tick
    \/ \E outcome \in Outcomes : PromiseSettles(outcome)
    \/ TimerFires

SpecAsync == Init /\ [][NextAsync]_vars

(***************************************************************************)
(* C13.  safeApiCall(fn) never rejects: when fn fulfils with v the result  *)
(* is {success: true, data: v}; when fn throws or rejects with e the       *)
(* result is {success: false, error}, where error is e itself if e is an   *)
(* Error and a new Error("Unknown error") otherwise.                       *)
(***************************************************************************)
SafeApiCallNeverRejects ==
    /\ apiCall.result.state # "rejected"
    /\ apiCall.pc = "settled" =>
          /\ apiCall.result.state = "fulfilled"
          /\ LET r == apiCall.result.value[1]
             IN  /\ apiCall.fn.state = "fulfilled" =>
                       /\ r.success
                       /\ r.data = apiCall.fn.value
                       /\ r.error = Undefined
                 /\ apiCall.fn.state = "rejected" =>
                       /\ ~r.success
                       /\ r.data = Undefined
                       /\ LET e == apiCall.fn.reason[1]
                          IN  IF e.kind \in {"Error", "ValidationError"}
                              THEN r.error = Some(e)
                              ELSE /\ r.error[1].kind = "Error"
                                   /\ r.error[1].message = "Unknown error"
                                   /\ \A t \in Thrown : t.id # r.error[1].id

\* fn failed with an object of an Error subclass, and the result carries it
SubclassErrorKept ==
    /\ apiCall.pc = "settled"
    /\ apiCall.fn.state = "rejected"
    /\ apiCall.fn.reason[1].kind = "ValidationError"
    /\ apiCall.result.value[1].error[1].id = 2

(***************************************************************************)
(* C14.  withTimeout(promise, ms) settles with whichever event happens     *)
(* first: the promise's outcome if the promise settles before ms have      *)
(* elapsed (before the timer fires), a rejection with Error("Timeout") if  *)
(* the timer fires first; the later event does not change the result.      *)
(***************************************************************************)
WithTimeoutFirstEventWins ==
    /\ race.events = << >> => race.result.state = "pending"
    /\ race.events # << >> =>
          /\ Head(race.events).what = "promise" => race.result = race.promise
          /\ Head(race.events).what = "timer" =>
                /\ race.result.state = "rejected"
                /\ race.result.reason[1].kind = "Error"
                /\ race.result.reason[1].message = "Timeout"
    /\ \A i \in DOMAIN race.events :
          /\ race.events[i].what = "timer" => race.events[i].at >= race.ms
          /\ (race.events[i].what = "promise" /\ race.events[i].at < race.ms)
                => race.result = race.promise

\* the promise was fulfilled in time and the timer has fired since
LateTimerIgnored ==
    /\ Len(race.events) = 2
    /\ race.events[1].what = "promise"
    /\ race.events[1].at < race.ms
    /\ race.events[2].what = "timer"
    /\ race.promise.state = "fulfilled"
    /\ race.result = race.promise

(***************************************************************************)
(* Loading flags around a request: useProductsStore.fetchProducts, the     *)
(* component's fetchUser and the form's onSubmit.  Each call is a record   *)
(* of its $fetch request and of the promise the function returned.  The    *)
(* three examples share no state, so one behaviour exercises one of them.  *)
(***************************************************************************)
\* calls made to one function in a behaviour
MaxCalls == 2

\* what "const { data } = await $fetch(...)" finds in the response: a list
\* of products, or undefined when the response has no data property
ProductData == {Undefined, Some(<< "p1" >>), Some(<< "p1", "p2" >>)}

UserData == {Undefined, Some("u1"), Some("u2")}

NewCall == [request |-> Pending, returned |-> Pending]

\* fetchProducts(): loading is set and the request is sent
FetchProductsCall ==
    /\ userCard = userCardIdle /\ form = formIdle
    /\ Len(productsStore.calls) < MaxCalls
    /\ productsStore' = [productsStore EXCEPT !.loading = TRUE,
                                               !.calls = Append(@, NewCall)]
    /\ UNCHANGED exceptProductsStore

\* the request of call i succeeds: products is assigned, finally runs
FetchProductsFulfils(i, data) ==
    /\ i \in DOMAIN productsStore.calls
    /\ productsStore.calls[i].request.state = "pending"
    /\ productsStore' =
          [productsStore EXCEPT !.products = data,
                                !.loading = FALSE,
                                !.calls[i] = [request  |-> Fulfilled(data),
                                              returned |-> FulfilledVoid]]
    /\ UNCHANGED exceptProductsStore

\* mutant: the flag is reset after the try block, not in a finally
FetchProductsRejects_noFinally(i, e) ==
    /\ i \in DOMAIN productsStore.calls
    /\ productsStore.calls[i].request.state = "pending"
    /\ productsStore' =
          [productsStore EXCEPT !.calls[i] = [request  |-> Rejected(e),
                                              returned |-> Rejected(e)]]
    /\ UNCHANGED exceptProductsStore

\* the request of call i fails: finally runs, the error goes to the caller
FetchProductsRejects(i, e) ==
    /\ i \in DOMAIN productsStore.calls
    /\ productsStore.calls[i].request.state = "pending"
    /\ productsStore' =
          [productsStore EXCEPT !.loading = FALSE,
                                !.calls[i] = [request  |-> Rejected(e),
                                              returned |-> Rejected(e)]]
    /\ UNCHANGED exceptProductsStore

\* fetchUser()
FetchUserCall ==
    /\ productsStore = productsStoreIdle /\ form = formIdle
    /\ Len(userCard.calls) < MaxCalls
    /\ userCard' = [userCard EXCEPT !.loading = TRUE, !.calls = Append(@, NewCall)]
    /\ UNCHANGED exceptUserCard

FetchUserFulfils(i, data) ==
    /\ i \in DOMAIN userCard.calls
    /\ userCard.calls[i].request.state = "pending"
    /\ userCard' = [userCard EXCEPT !.user = data,
                                    !.loading = FALSE,
                                    !.calls[i] = [request  |-> Fulfilled(data),
                                                  returned |-> FulfilledVoid]]
    /\ UNCHANGED exceptUserCard

FetchUserRejects(i, e) ==
    /\ i \in DOMAIN userCard.calls
    /\ userCard.calls[i].request.state = "pending"
    /\ userCard' = [userCard EXCEPT !.loading = FALSE,
                                    !.calls[i] = [request  |-> Rejected(e),
                                                  returned |-> Rejected(e)]]
    /\ UNCHANGED exceptUserCard

\* onSubmit(data)
OnSubmitCall ==
    /\ productsStore = productsStoreIdle /\ userCard = userCardIdle
    /\ Len(form.calls) < MaxCalls
    /\ form' = [form EXCEPT !.pending = TRUE, !.calls = Append(@, NewCall)]
    /\ UNCHANGED exceptForm

OnSubmitFulfils(i) ==
    /\ i \in DOMAIN form.calls
    /\ form.calls[i].request.state = "pending"
    /\ form' = [form EXCEPT !.pending = FALSE,
                            !.calls[i] = [request  |-> FulfilledVoid,
                                          returned |-> FulfilledVoid]]
    /\ UNCHANGED exceptForm

OnSubmitRejects(i, e) ==
    /\ i \in DOMAIN form.calls
    /\ form.calls[i].request.state = "pending"
    /\ form' = [form EXCEPT !.pending = FALSE,
                            !.calls[i] = [request  |-> Rejected(e),
                                          returned |-> Rejected(e)]]
    /\ UNCHANGED exceptForm

NextLoading ==
    \/ FetchProductsCall
    \/ \E i \in 1..MaxCalls, data \in ProductData : FetchProductsFulfils(i, data)
    \/ \E i \in 1..MaxCalls, e \in Thrown : FetchProductsRejects(i, e)
    \/ FetchUserCall
    \/ \E i \in 1..MaxCalls, data \in UserData : FetchUserFulfils(i, data)
    \/ \E i \in 1..MaxCalls, e \in Thrown : FetchUserRejects(i, e)
    \/ OnSubmitCall
    \/ \E i \in 1..MaxCalls : OnSubmitFulfils(i)
    \/ \E i \in 1..MaxCalls, e \in Thrown : OnSubmitRejects(i, e)

SpecLoading == Init /\ [][NextLoading]_vars

(***************************************************************************)
(* C15.  When a fetchProducts call (likewise fetchUser, onSubmit)          *)
(* finishes, whether its request succeeded or failed, its loading/pending  *)
(* flag is false; when the request failed, the stored data (products,      *)
(* user) is unchanged and the failure propagates to the caller.            *)
(***************************************************************************)
\* call i finishes in this step
Finishes(before, after, i) ==
    /\ i \in DOMAIN before
    /\ before[i].returned.state = "pending"
    /\ after[i].returned.state # "pending"

\* the call that finished failed, and the caller gets the request's error
Propagates(call) ==
    call.request.state = "rejected" =>
        call.returned.state = "rejected" /\ call.returned.reason = call.request.reason

FlagClearedWhenCallFinishes ==
    [][ \A i \in 1..MaxCalls :
          /\ Finishes(productsStore.calls, productsStore'.calls, i) =>
                /\ productsStore'.loading = FALSE
                /\ Propagates(productsStore'.calls[i])
                /\ productsStore'.calls[i].request.state = "rejected" =>
                      productsStore'.products = productsStore.products
          /\ Finishes(userCard.calls, userCard'.calls, i) =>
                /\ userCard'.loading = FALSE
                /\ Propagates(userCard'.calls[i])
                /\ userCard'.calls[i].request.state = "rejected" =>
                      userCard'.user = userCard.user
          /\ Finishes(form.calls, form'.calls, i) =>
                /\ form'.pending = FALSE
                /\ Propagates(form'.calls[i]) ]_vars

\* a single fetchProducts call failed after an earlier one had loaded two
\* products, which are still there
FailedFetchKeptProducts ==
    /\ Len(productsStore.calls) = 2
    /\ productsStore.calls[1].returned.state = "fulfilled"
    /\ productsStore.calls[2].returned.state = "rejected"
    /\ productsStore.products = Some(<< "p1", "p2" >>)
    /\ ~productsStore.loading

(***************************************************************************)
(* C16.  In the products store, loading is true in every state in which    *)
(* at least one fetchProducts call is still in flight, also when two calls *)
(* overlap and one of them finishes before the other.                      *)
(***************************************************************************)
LoadingWhileAnyCallInFlight ==
    (\E i \in DOMAIN productsStore.calls :
        productsStore.calls[i].returned.state = "pending")
    => productsStore.loading

(***************************************************************************)
(* stores/auth.ts (useAuthStore), composables/useAuthGuard.ts and          *)
(* features/authentication/composables/useAuthFlow.ts.                     *)
(***************************************************************************)
\* what "const { data } = await $fetch(...)" finds in the login response:
\* a user and a token, or undefined when the response has no data property
LoginData ==
    { Undefined,
      Some([user |-> "alice", token |-> "token-a"]),
      Some([user |-> "bob",   token |-> "token-b"]) }

\* errors the auth requests fail with
RequestErrors == {e \in Thrown : e.id \in {1, 3}}

\* reading a property of undefined
TypeError == [kind |-> "TypeError", id |-> 0, message |-> "Cannot read properties of undefined"]

\* mutant: authenticated from the first successful login on, logout or not
isAuthenticated_onceLoggedIn ==
    \E i \in DOMAIN authStore.calls :
        authStore.calls[i].kind = "login" /\ authStore.calls[i].returned.state = "fulfilled"

\* computed(() => !!user.value): null is falsy, a user object truthy
isAuthenticated == authStore.user # Null

AuthCall(kind) == [kind |-> kind, request |-> Pending, returned |-> Pending]

\* login(credentials): the request is sent
LoginCall ==
    /\ Len(authStore.calls) < MaxCalls
    /\ authStore' = [authStore EXCEPT !.calls = Append(@, AuthCall("login"))]
    /\ UNCHANGED <<exceptAuth, authGuard, authFlow>>

\* the login request of call i succeeds: user and the cookie are set from
\* data, or reading data.user throws when data is undefined
LoginFulfils(i, data) ==
    /\ i \in DOMAIN authStore.calls
    /\ authStore.calls[i].kind = "login"
    /\ authStore.calls[i].request.state = "pending"
    /\ authStore' =
          IF data = Undefined
          THEN [authStore EXCEPT !.calls[i].request = FulfilledVoid,
                                 !.calls[i].returned = Rejected(TypeError)]
          ELSE [authStore EXCEPT !.user = data[1].user,
                                 !.token = data[1].token,
                                 !.calls[i].request = Fulfilled(data[1]),
                                 !.calls[i].returned = FulfilledVoid]
    /\ UNCHANGED <<exceptAuth, authGuard, authFlow>>

\* the login request of call i fails
LoginRejects(i, e) ==
    /\ i \in DOMAIN authStore.calls
    /\ authStore.calls[i].kind = "login"
    /\ authStore.calls[i].request.state = "pending"
    /\ authStore' = [authStore EXCEPT !.calls[i].request = Rejected(e),
                                      !.calls[i].returned = Rejected(e)]
    /\ UNCHANGED <<exceptAuth, authGuard, authFlow>>

\* logout(): the request is sent
LogoutCall ==
    /\ Len(authStore.calls) < MaxCalls
    /\ authStore' = [authStore EXCEPT !.calls = Append(@, AuthCall("logout"))]
    /\ UNCHANGED <<exceptAuth, authGuard, authFlow>>

\* the logout request of call i succeeds: user and the cookie are cleared
LogoutFulfils(i) ==
    /\ i \in DOMAIN authStore.calls
    /\ authStore.calls[i].kind = "logout"
    /\ authStore.calls[i].request.state = "pending"
    /\ authStore' = [authStore EXCEPT !.user = Null,
                                      !.token = Null,
                                      !.calls[i].request = FulfilledVoid,
                                      !.calls[i].returned = FulfilledVoid]
    /\ UNCHANGED <<exceptAuth, authGuard, authFlow>>

\* mutant: the session is dropped locally even though the request failed
LogoutRejects_clearsAnyway(i, e) ==
    /\ i \in DOMAIN authStore.calls
    /\ authStore.calls[i].kind = "logout"
    /\ authStore.calls[i].request.state = "pending"
    /\ authStore' = [authStore EXCEPT !.user = Null,
                                      !.token = Null,
                                      !.calls[i].request = Rejected(e),
                                      !.calls[i].returned = Rejected(e)]
    /\ UNCHANGED <<exceptAuth, authGuard, authFlow>>

\* the logout request of call i fails
LogoutRejects(i, e) ==
    /\ i \in DOMAIN authStore.calls
    /\ authStore.calls[i].kind = "logout"
    /\ authStore.calls[i].request.state = "pending"
    /\ authStore' = [authStore EXCEPT !.calls[i].request = Rejected(e),
                                      !.calls[i].returned = Rejected(e)]
    /\ UNCHANGED <<exceptAuth, authGuard, authFlow>>

\* requireAuth()
RequireAuth ==
    /\ authGuard' =
          [ called |-> TRUE,
            thrown |-> IF ~isAuthenticated
                       THEN << createError(401, "Authentication required", {}) >>
                       ELSE << >> ]
    /\ UNCHANGED <<exceptAuth, authStore, authFlow>>

\* validateCredentials(credentials), as the validation composable answers
Validations == {[success |-> TRUE], [success |-> FALSE]}

\* loginWithFlow(credentials) up to its first await: a failed validation is
\* returned at once, otherwise authStore.login is called and awaited
LoginWithFlow(validation) ==
    /\ authFlow.pc = "idle"
    /\ IF ~validation.success
       THEN /\ authFlow' = [authFlow EXCEPT !.pc = "done",
                                            !.validation = validation,
                                            !.returned = Fulfilled(validation)]
            /\ UNCHANGED authStore
       ELSE /\ Len(authStore.calls) < MaxCalls
            /\ authStore' = [authStore EXCEPT !.calls = Append(@, AuthCall("login"))]
            /\ authFlow' = [authFlow EXCEPT !.pc = "awaitingLogin",
                                            !.validation = validation,
                                            !.loginCalls = Append(@, Len(authStore.calls) + 1)]
    /\ UNCHANGED <<exceptAuth, authGuard>>

\* the promise loginWithFlow awaits has settled and the function goes on:
\* after authStore.login, result.success is read and trackAuthEvent is
\* called and awaited; after trackAuthEvent, result is returned
FlowResumes ==
    /\ authFlow.pc \in {"awaitingLogin", "tracking"}
    /\ LET login == authStore.calls[authFlow.loginCalls[Len(authFlow.loginCalls)]].returned
       IN  /\ login.state # "pending"
           /\ authFlow' =
                 IF authFlow.pc = "tracking"
                    THEN [authFlow EXCEPT !.pc = "done", !.returned = login]
                 ELSE IF login.state = "rejected"
                    THEN [authFlow EXCEPT !.pc = "done", !.returned = login]
                 ELSE IF login.value = Undefined
                    THEN [authFlow EXCEPT !.pc = "done", !.returned = Rejected(TypeError)]
                 ELSE [authFlow EXCEPT
                          !.pc = "tracking",
                          !.tracked = Append(@, [ event   |-> "login_attempt",
                                                  success |-> login.value[1].success ])]
    /\ UNCHANGED <<exceptAuth, authStore, authGuard>>

NextAuth ==
    \/ LoginCall
    \/ \E i \in 1..MaxCalls, data \in LoginData : LoginFulfils(i, data)
    \/ \E i \in 1..MaxCalls, e \in RequestErrors : LoginRejects(i, e)
    \/ LogoutCall
    \/ \E i \in 1..MaxCalls : LogoutFulfils(i)
    \/ \E i \in 1..MaxCalls, e \in RequestErrors : LogoutRejects(i, e)
    \/ RequireAuth
    \/ \E validation \in Validations : LoginWithFlow(validation)
    \/ FlowResumes

SpecAuth == Init /\ [][NextAuth]_vars

(***************************************************************************)
(* C17.  After any sequence of login and logout calls, each succeeding or  *)
(* failing, isAuthenticated is true exactly when user is non-null, and     *)
(* requireAuth throws a 401 "Authentication required" error exactly when   *)
(* user is null.                                                           *)
(***************************************************************************)
Users == {"alice", "bob"}

AuthenticatedExactlyWithUser ==
    [][ /\ authStore.user \in Users \cup {Null}
        /\ isAuthenticated <=> authStore.user \in Users
        /\ isAuthenticated' <=> authStore'.user \in Users
        /\ authGuard' # authGuard =>
              /\ authStore.user = Null =>
                    authGuard'.thrown = << createError(401, "Authentication required", {}) >>
              /\ authStore.user # Null => authGuard'.thrown = << >> ]_vars

\* requireAuth let the caller through: alice is still logged in after a
\* logout that failed
GuardPassedAfterFailedLogout ==
    /\ authGuard.called
    /\ authGuard.thrown = << >>
    /\ authStore.user = "alice"
    /\ \E i \in DOMAIN authStore.calls :
          authStore.calls[i].kind = "logout" /\ authStore.calls[i].returned.state = "rejected"

(***************************************************************************)
(* C18.  logout clears user and the auth-token cookie only after its POST  *)
(* request has succeeded, and login sets them only after its POST request  *)
(* has succeeded; when either request fails, user and the cookie are left  *)
(* exactly as they were.                                                   *)
(***************************************************************************)
SessionChangesOnlyAfterSuccess ==
    [][ /\ (authStore'.user # authStore.user \/ authStore'.token # authStore.token) =>
              \E i \in DOMAIN authStore.calls :
                 /\ authStore.calls[i].request.state = "pending"
                 /\ authStore'.calls[i].request.state = "fulfilled"
                 /\ authStore.calls[i].kind = "logout" =>
                       authStore'.user = Null /\ authStore'.token = Null
                 /\ authStore.calls[i].kind = "login" =>
                       /\ authStore'.user = authStore'.calls[i].request.value[1].user
                       /\ authStore'.token = authStore'.calls[i].request.value[1].token
        /\ \A i \in DOMAIN authStore.calls :
              ( /\ authStore.calls[i].request.state = "pending"
                /\ authStore'.calls[i].request.state = "rejected" )
              => authStore'.user = authStore.user /\ authStore'.token = authStore.token
      ]_vars

\* bob logged in, then a second login failed: bob and his cookie are kept
FailedLoginKeptSession ==
    /\ Len(authStore.calls) = 2
    /\ authStore.calls[1].kind = "login" /\ authStore.calls[1].returned.state = "fulfilled"
    /\ authStore.calls[2].kind = "login" /\ authStore.calls[2].request.state = "rejected"
    /\ authStore.user = "bob"
    /\ authStore.token = "token-b"

(***************************************************************************)
(* C19.  loginWithFlow(credentials): when validateCredentials reports      *)
(* failure it returns that validation result and calls neither             *)
(* authStore.login nor trackAuthEvent; otherwise it calls authStore.login  *)
(* exactly once, then trackAuthEvent("login_attempt") with the success     *)
(* flag of the login result, and returns the login result.                 *)
(***************************************************************************)
LoginWithFlowTracksAndReturns ==
    authFlow.pc = "done" =>
        IF ~authFlow.validation.success
        THEN /\ authFlow.returned = Fulfilled(authFlow.validation)
             /\ authFlow.loginCalls = << >>
             /\ authFlow.tracked = << >>
        ELSE /\ Len(authFlow.loginCalls) = 1
             /\ LET login == authStore.calls[authFlow.loginCalls[1]].returned
                IN  login.state = "fulfilled" =>
                       /\ Len(authFlow.tracked) = 1
                       /\ authFlow.tracked[1].event = "login_attempt"
                       /\ authFlow.returned = login

(***************************************************************************)
(* File upload validation (validateFile).  A file name is a sequence of    *)
(* UTF-16 code units; a code unit is written as its character, or as       *)
(* "U+xxxx" outside ASCII.                                                 *)
(***************************************************************************)
\* the longest name tried, in parts
MaxParts == 3

\* the code units of a literal
Units(text) == [i \in 1..Len(text) |-> Ch(text, i)]

UpperCase == "ABCDEFGHIJKLMNOPQRSTUVWXYZ"
LowerCase == "abcdefghijklmnopqrstuvwxyz"

\* LATIN CAPITAL LETTER I WITH DOT ABOVE: its lower case is the two code
\* units "i", COMBINING DOT ABOVE
DottedCapitalI == "U+0130"
CombiningDotAbove == "U+0307"

LowerOf(unit) ==
    IF unit = DottedCapitalI THEN <<"i", CombiningDotAbove>>
    ELSE IF \E k \in 1..Len(UpperCase) : Ch(UpperCase, k) = unit
         THEN << Ch(LowerCase, CHOOSE k \in 1..Len(UpperCase) : Ch(UpperCase, k) = unit) >>
         ELSE << unit >>

\* String.prototype.toLowerCase
RECURSIVE toLowerCase(_)
toLowerCase(name) ==
    IF name = << >> THEN << >> ELSE LowerOf(Head(name)) \o toLowerCase(Tail(name))

\* String.prototype.lastIndexOf, counting from 0; -1 when unit does not occur
lastIndexOf(name, unit) ==
    LET at == {i \in 1..Len(name) : name[i] = unit}
    IN  IF at = {} THEN -1 ELSE (CHOOSE i \in at : \A j \in at : j <= i) - 1

\* String.prototype.substring(start): start is clamped to 0..length
substring(name, start) ==
    LET from == IF start < 0 THEN 0 ELSE IF start > Len(name) THEN Len(name) ELSE start
    IN  SubSeq(name, from + 1, Len(name))

\* String.prototype.includes
includes(name, text) == Contains(name, Units(text))

allowedTypes == {"image/jpeg", "image/png", "image/webp"}
maxSize == 5 * 1024 * 1024
allowedExtensions == {Units(".jpg"), Units(".jpeg"), Units(".png"), Units(".webp")}

ValidationError(message) == [kind |-> "ValidationError", message |-> message]

\* what validateFile throws for the file: << >> when it returns normally
validateFile(file) ==
    IF file.type \notin allowedTypes
    THEN << ValidationError("Invalid file type") >>
    ELSE LET extension == substring(toLowerCase(file.name), lastIndexOf(file.name, "."))
         IN  IF extension \notin allowedExtensions
             THEN << ValidationError("Invalid file extension") >>
             ELSE IF file.size > maxSize
             THEN << ValidationError("File too large") >>
             ELSE IF includes(file.name, "..") \/ includes(file.name, "/")
                        \/ includes(file.name, "\\")
             THEN << ValidationError("Invalid filename") >>
             ELSE << >>

\* the files tried
NameParts ==
    { <<"a">>, <<DottedCapitalI>>, <<".">>, <<"/">>, <<"\\">>,
      Units(".jpg"), Units(".JPEG"), Units(".png"), Units(".webp"), Units(".gif") }

RECURSIVE Names(_)
Names(parts) ==
    IF parts = 0 THEN {<< >>}
    ELSE Names(parts - 1) \cup {name \o part : name \in Names(parts - 1), part \in NameParts}

FileTypes == allowedTypes \cup {"image/gif"}
FileSizes == {0, maxSize, maxSize + 1}

Files == [name : Names(MaxParts), type : FileTypes, size : FileSizes]

\* a file has been picked, validateFile has not run yet
InitUpload ==
    /\ ConfigLoaded
    /\ ExamplesAtRest
    /\ upload \in {[file |-> <<file>>, called |-> FALSE, thrown |-> << >>] : file \in Files}
    /\ passwordCheck = NoPasswordCheck

ValidateFile ==
    /\ upload.file # << >>
    /\ ~upload.called
    /\ upload' = [upload EXCEPT !.called = TRUE, !.thrown = validateFile(upload.file[1])]
    /\ UNCHANGED exceptUpload

NextUpload == ValidateFile

SpecUpload == InitUpload /\ [][NextUpload]_vars

(***************************************************************************)
(* C20.  validateFile accepts a file exactly when its MIME type is one of  *)
(* image/jpeg, image/png, image/webp, its lower-cased extension (the text  *)
(* from the last ".") is one of .jpg, .jpeg, .png, .webp, its size is at   *)
(* most 5 * 1024 * 1024 bytes and its name contains none of "..", "/",     *)
(* "\"; otherwise it throws a ValidationError whose message is that of the *)
(* first failing check, in the order type, extension, size, filename.      *)
(***************************************************************************)
\* the text of the name from its last "." on, nothing when there is no "."
TextFromLastDot(name) ==
    IF lastIndexOf(name, ".") = -1 THEN << >>
    ELSE SubSeq(name, lastIndexOf(name, ".") + 1, Len(name))

FirstFailingCheck(file) ==
    IF file.type \notin {"image/jpeg", "image/png", "image/webp"}
    THEN <<"Invalid file type">>
    ELSE IF toLowerCase(TextFromLastDot(file.name))
               \notin {Units(".jpg"), Units(".jpeg"), Units(".png"), Units(".webp")}
    THEN <<"Invalid file extension">>
    ELSE IF file.size > 5 * 1024 * 1024
    THEN <<"File too large">>
    ELSE IF \E text \in {"..", "/", "\\"} : Contains(file.name, Units(text))
    THEN <<"Invalid filename">>
    ELSE << >>

ValidateFileAcceptsExactlyValidFiles ==
    upload.called =>
        LET failing == FirstFailingCheck(upload.file[1])
        IN  /\ upload.thrown = << >> <=> failing = << >>
            /\ failing # << >> => upload.thrown = << ValidationError(failing[1]) >>

(***************************************************************************)
(* Password policy (validatePassword).  A password is a string; the        *)
(* regular expression is evaluated as the engine evaluates it: four        *)
(* lookaheads at the start, then the anchored body.                        *)
(***************************************************************************)
\* the longest password tried, in chunks
MaxChunks == 5

\* the fewest characters of the body {8,}
minLength == 8

OneOf(char, chars) == \E k \in 1..Len(chars) : Ch(chars, k) = char

\* the character sets of the expression: [a-z], [A-Z], \d, [@$!%*?&]
ListedSpecials == "@$!%*?&"

\* "." matches everything but a line terminator
LineTerminators == {"\n", "\r"}

\* (?=.*[set]) at position 0: a character of the set, reached over
\* characters that "." matches
Lookahead(password, set) ==
    \E i \in 1..Len(password) :
        /\ OneOf(Ch(password, i), set)
        /\ \A j \in 1..(i - 1) : Ch(password, j) \notin LineTerminators

\* [A-Za-z\d@$!%*?&]
InBodyClass(char) ==
    \/ OneOf(char, UpperCase)
    \/ OneOf(char, LowerCase)
    \/ OneOf(char, DigitChars)
    \/ OneOf(char, ListedSpecials)

\* passwordRegex.test(password)
validatePassword(password) ==
    /\ Lookahead(password, LowerCase)
    /\ Lookahead(password, UpperCase)
    /\ Lookahead(password, DigitChars)
    /\ Lookahead(password, ListedSpecials)
    /\ Len(password) >= minLength
    /\ \A i \in 1..Len(password) : InBodyClass(Ch(password, i))

\* the passwords tried
Chunks == {"ab", "CD", "12", "@", "$!", "#", "\n"}

RECURSIVE Passwords(_)
Passwords(chunks) ==
    IF chunks = 0 THEN {""}
    ELSE Passwords(chunks - 1)
            \cup {password \o chunk : password \in Passwords(chunks - 1), chunk \in Chunks}

\* a password has been typed, validatePassword has not run yet
InitPasswordCheck ==
    /\ ConfigLoaded
    /\ ExamplesAtRest
    /\ upload = NoUpload
    /\ passwordCheck \in {[password |-> password, called |-> FALSE, returned |-> FALSE] :
                             password \in Passwords(MaxChunks)}

ValidatePassword ==
    /\ ~passwordCheck.called
    /\ passwordCheck' = [passwordCheck EXCEPT !.called = TRUE,
                                              !.returned = validatePassword(passwordCheck.password)]
    /\ UNCHANGED exceptPasswordCheck

NextPasswordCheck == ValidatePassword

SpecPasswordCheck == InitPasswordCheck /\ [][NextPasswordCheck]_vars

(***************************************************************************)
(* C21.  validatePassword returns true for every password of at least 8    *)
(* characters that contains at least one lowercase letter, one uppercase   *)
(* letter, one digit and one special character, and false for every other  *)
(* password.  A special character is taken to be one of those the          *)
(* expression lists, @ $ ! % * ? &, the reading that asks least of the     *)
(* code.                                                                   *)
(***************************************************************************)
Has(password, chars) == \E i \in 1..Len(password) : OneOf(Ch(password, i), chars)

MeetsPolicy(password) ==
    /\ Len(password) >= 8
    /\ Has(password, "abcdefghijklmnopqrstuvwxyz")
    /\ Has(password, "ABCDEFGHIJKLMNOPQRSTUVWXYZ")
    /\ Has(password, "0123456789")
    /\ Has(password, "@$!%*?&")

ValidatePasswordDecidesPolicy ==
    passwordCheck.called => (passwordCheck.returned <=> MeetsPolicy(passwordCheck.password))

====
